---- MODULE Spec2Model ----
(***************************************************************************)
(* Model of adm.py: minkowski_distance, calculate_minkowski_distances,     *)
(* calculate_t_test, combine_t_test_and_minkowski, calculate_category_data. *)
(*                                                                         *)
(* Numbers.  A Python float or int is modelled by the exact rational it    *)
(* holds, a record [n, d] in lowest terms with d > 0.  The cells of the    *)
(* model are small decimals that are exact in binary (integers and .5), so *)
(* +, -, *, / and the tests "== 0" agree with the float computation.       *)
(* A cell of the file is a sequence of one-character strings, so that      *)
(* int(), float() and str.lower() are computed from the characters.        *)
(* x ** (1/p), x ** 0.5 and round(x, 4) of such a root are kept as the     *)
(* exact real they denote (a record naming the radicand), not as digits.   *)
(***************************************************************************)
EXTENDS Integers, Sequences, FiniteSets, TLC

VARIABLES
    pc,               \* position of the running call
    error,            \* the exception that ended the call, "" when none
    x1, x2, p,        \* minkowski_distance: arguments
    i, distance,      \* minkowski_distance: loop index, accumulated sum
    md_return,        \* minkowski_distance: returned value (None / Some)
    entry,            \* the function that was called on the file
    lines,            \* file rows, lines[1] is the header
    row_ix, grp_ix,   \* position of the row loop / of the group loop
    profits_2020, profits_2021, t_test_scores, t_test_results,
    country_data, country_distances, minkowski_results,
    combined_results,
    csv_data, category_data, cat_return

vars == <<pc, error, x1, x2, p, i, distance, md_return, entry, lines, row_ix,
          grp_ix, profits_2020, profits_2021, t_test_scores, t_test_results,
          country_data, country_distances, minkowski_results,
          combined_results, csv_data, category_data, cat_return>>

pointVars == <<x1, x2, p, i, distance, md_return>>
fileVars == <<entry, lines, profits_2020, profits_2021, t_test_scores,
              t_test_results, country_data, country_distances,
              minkowski_results, combined_results>>
catVars == <<csv_data, category_data, cat_return>>

\* ---------------------------------------------------------------- bounds
MaxLen == 2       \* longest vector given to minkowski_distance
MaxP == 3         \* largest exponent given to minkowski_distance
MaxRows == 3      \* most data rows of a file

\* p=3, the default exponent (lines 31, 117)
DefaultP == 3

\* ------------------------------------------------------- optional values
None == <<>>
Some(v) == <<v>>

\* ------------------------------------------------------------- rationals
Abs(v) == IF v < 0 THEN -v ELSE v

RECURSIVE GCD(_, _)
GCD(a, b) == IF b = 0 THEN a ELSE GCD(b, a % b)

Rat(n, d) ==
    LET g == GCD(Abs(n), Abs(d))
        s == IF d < 0 THEN -1 ELSE 1
    IN [n |-> s * (n \div g), d |-> s * (d \div g)]

FromInt(v) == [n |-> v, d |-> 1]
RZero == FromInt(0)
RAdd(a, b) == Rat(a.n * b.d + b.n * a.d, a.d * b.d)
RSub(a, b) == Rat(a.n * b.d - b.n * a.d, a.d * b.d)
RMul(a, b) == Rat(a.n * b.n, a.d * b.d)
\* a / b, for b # 0 (the callers raise ZeroDivisionError first)
RDiv(a, b) == Rat(a.n * b.d, a.d * b.n)
RAbs(a) == [n |-> Abs(a.n), d |-> a.d]
RIsZero(a) == a.n = 0
RLess(a, b) == a.n * b.d < b.n * a.d

RECURSIVE RPow(_, _)
RPow(a, k) == IF k = 0 THEN FromInt(1) ELSE RMul(a, RPow(a, k - 1))

RECURSIVE RSum(_)
RSum(s) == IF s = <<>> THEN RZero ELSE RAdd(s[1], RSum(Tail(s)))

\* x ** (1/k): the k-th root of a non-negative rational, kept exact
Root(a, k) == [radicand |-> a, index |-> k]
\* round(x, 4)
Round4(x) == [round |-> 4, of |-> x]

\* ---------------------------------------------------------- dictionaries
\* A dict is the sequence of its items in insertion order.
Keys(d) == {d[k].key : k \in DOMAIN d}
Has(d, key) == key \in Keys(d)
Get(d, key) == d[CHOOSE k \in DOMAIN d : d[k].key = key].val
Put(d, key, val) ==
    IF Has(d, key)
    THEN [k \in DOMAIN d |-> IF d[k].key = key THEN [key |-> key, val |-> val] ELSE d[k]]
    ELSE Append(d, [key |-> key, val |-> val])

\* ------------------------------------------------------- int() / float()
Digits == {"0", "1", "2", "3", "4", "5", "6", "7", "8", "9"}
DigitValue(c) ==
    CASE c = "0" -> 0 [] c = "1" -> 1 [] c = "2" -> 2 [] c = "3" -> 3
      [] c = "4" -> 4 [] c = "5" -> 5 [] c = "6" -> 6 [] c = "7" -> 7
      [] c = "8" -> 8 [] c = "9" -> 9

AllDigits(s) == \A k \in DOMAIN s : s[k] \in Digits

RECURSIVE NatVal(_)
NatVal(s) ==
    IF s = <<>> THEN 0
    ELSE 10 * NatVal(SubSeq(s, 1, Len(s) - 1)) + DigitValue(s[Len(s)])

RECURSIVE Pow10(_)
Pow10(k) == IF k = 0 THEN 1 ELSE 10 * Pow10(k - 1)

Signed(s) == s # <<>> /\ s[1] \in {"+", "-"}
Unsigned(s) == IF Signed(s) THEN Tail(s) ELSE s
SignOf(s) == IF Signed(s) /\ s[1] = "-" THEN -1 ELSE 1

\* int(cell): an optional sign and one or more digits, else ValueError
ParseInt(cell) ==
    LET body == Unsigned(cell)
    IN IF body # <<>> /\ AllDigits(body)
       THEN [ok |-> TRUE, val |-> SignOf(cell) * NatVal(body)]
       ELSE [ok |-> FALSE, val |-> 0]

\* float(cell): an optional sign, digits with at most one point and at least
\* one digit, else ValueError
ParseFloat(cell) ==
    LET body == Unsigned(cell)
        dots == {k \in DOMAIN body : body[k] = "."}
        dot == IF dots = {} THEN Len(body) + 1 ELSE CHOOSE k \in dots : TRUE
        whole == SubSeq(body, 1, dot - 1)
        frac == SubSeq(body, dot + 1, Len(body))
    IN IF /\ Cardinality(dots) <= 1
          /\ AllDigits(whole) /\ AllDigits(frac)
          /\ Len(whole) + Len(frac) > 0
       THEN [ok |-> TRUE,
             val |-> Rat(SignOf(cell) * (NatVal(whole) * Pow10(Len(frac)) + NatVal(frac)),
                         Pow10(Len(frac)))]
       ELSE [ok |-> FALSE, val |-> RZero]

\* ===================================================== minkowski_distance
DimensionMismatchM(a, b) == Len(a) > Len(b)
\* line 22: if len(x1) != len(x2)
DimensionMismatch(a, b) == Len(a) # Len(b)

TermM(a, b, e) == RPow(RSub(a, b), e)
\* line 27: abs(x1[i] - x2[i]) ** p
Term(a, b, e) == RPow(RAbs(RSub(a, b)), e)

\* lines 22-23
MDCheck ==
    /\ pc = "md_check"
    /\ IF DimensionMismatch(x1, x2)
       THEN /\ pc' = "raised"
            /\ error' = "ValueError: Input vectors must have the same dimensionality."
            /\ UNCHANGED <<i, distance>>
       ELSE /\ pc' = "md_loop"
            /\ distance' = RZero
            /\ i' = 0
            /\ UNCHANGED error
    /\ UNCHANGED <<x1, x2, p, md_return, row_ix, grp_ix>>
    /\ UNCHANGED <<fileVars, catVars>>

\* lines 26-27, one iteration of for i in range(len(x1))
MDLoop ==
    /\ pc = "md_loop"
    /\ i < Len(x1)
    /\ distance' = RAdd(distance, Term(x1[i + 1], x2[i + 1], p))
    /\ i' = i + 1
    /\ UNCHANGED <<pc, error, x1, x2, p, md_return, row_ix, grp_ix>>
    /\ UNCHANGED <<fileVars, catVars>>

\* line 29
MDReturn ==
    /\ pc = "md_loop"
    /\ i = Len(x1)
    /\ md_return' = Some(Root(distance, p))
    /\ pc' = "done"
    /\ UNCHANGED <<error, x1, x2, p, i, distance, row_ix, grp_ix>>
    /\ UNCHANGED <<fileVars, catVars>>

\* The whole call as a function, for calculate_minkowski_distances (line 56).
RECURSIVE MinkowskiSum(_, _, _)
MinkowskiSum(a, b, e) ==
    IF a = <<>> THEN RZero
    ELSE RAdd(MinkowskiSum(SubSeq(a, 1, Len(a) - 1), SubSeq(b, 1, Len(a) - 1), e),
              Term(a[Len(a)], b[Len(a)], e))

minkowski_distance(a, b, e) ==
    IF DimensionMismatch(a, b)
    THEN [err |-> "ValueError: Input vectors must have the same dimensionality.",
          val |-> Root(RZero, e)]
    ELSE [err |-> "", val |-> Root(MinkowskiSum(a, b, e), e)]

\* ------------------------------------------------------- idle components
PointIdle ==
    /\ x1 = <<>> /\ x2 = <<>> /\ p = DefaultP /\ i = 0
    /\ distance = RZero /\ md_return = None

FileIdle ==
    /\ entry = "" /\ lines = <<>>
    /\ profits_2020 = <<>> /\ profits_2021 = <<>>
    /\ t_test_scores = <<>> /\ t_test_results = None
    /\ country_data = <<>> /\ country_distances = <<>>
    /\ minkowski_results = None /\ combined_results = None

CatIdle == csv_data = <<>> /\ category_data = <<>> /\ cat_return = None

\* ======================================================== the input file
\* lines[0] of the file: the columns looked up by name (lines 38-39, 43,
\* 70-71, 75) sit where calculate_category_data reads them by position.
Header ==
    <<"id", "name", "country", "founded", "city", "category",
      "number of employees", "median Salary",
      "profits in 2020(million)", "profits in 2021(million)">>

\* header.index(name), as a position of a TLA+ sequence
HeaderIndex(header, name) == CHOOSE k \in DOMAIN header : header[k] = name

MkRow(id, country, category, employees, salary, pa, pb) ==
    <<id, <<"n">>, country, <<"1">>, <<"c">>, category, employees, salary, pa, pb>>

\* ======================================================= calculate_t_test
AppendTo(d, key, v) ==
    IF Has(d, key) THEN Put(d, key, Append(Get(d, key), v)) ELSE Put(d, key, <<v>>)

SetDefault(d, key) == IF Has(d, key) THEN d ELSE Put(d, key, <<>>)

TTestRowM(header, row, d20, d21) ==
    LET country == row[HeaderIndex(header, "country")]
        f20 == ParseFloat(row[HeaderIndex(header, "profits in 2020(million)")])
        f21 == ParseFloat(row[HeaderIndex(header, "profits in 2021(million)")])
    IN IF ~f20.ok
       THEN [skipped |-> TRUE, d20 |-> d20, d21 |-> d21]
       ELSE IF ~f21.ok
       THEN [skipped |-> TRUE, d20 |-> AppendTo(d20, country, f20.val),
             d21 |-> SetDefault(d21, country)]
       ELSE [skipped |-> FALSE,
             d20 |-> AppendTo(d20, country, f20.val),
             d21 |-> AppendTo(d21, country, f21.val)]

\* lines 74-90: one iteration of the row loop
TTestRow(header, row, d20, d21) ==
    LET country == row[HeaderIndex(header, "country")]
        f20 == ParseFloat(row[HeaderIndex(header, "profits in 2020(million)")])
        f21 == ParseFloat(row[HeaderIndex(header, "profits in 2021(million)")])
    IN IF ~f20.ok \/ ~f21.ok
       THEN [skipped |-> TRUE, d20 |-> d20, d21 |-> d21]
       ELSE [skipped |-> FALSE,
             d20 |-> AppendTo(d20, country, f20.val),
             d21 |-> AppendTo(d21, country, f21.val)]

SquaredDeviations(values, mean) ==
    [k \in DOMAIN values |-> RPow(RSub(values[k], mean), 2)]

NoStatistic == [num |-> RZero, radicand |-> RZero]

\* lines 98-110: the statistic of one group; num / sqrt(radicand) is the value
t_statistic(values_2020, values_2021) ==
    LET n1 == Len(values_2020)
        n2 == Len(values_2021)
    IN IF n1 = 0 \/ n2 = 0
       THEN [err |-> "ZeroDivisionError", val |-> NoStatistic]
       ELSE
       LET mean_2020 == RDiv(RSum(values_2020), FromInt(n1))
           mean_2021 == RDiv(RSum(values_2021), FromInt(n2))
           sum_2020 == RSum(SquaredDeviations(values_2020, mean_2020))
           sum_2021 == RSum(SquaredDeviations(values_2021, mean_2021))
       IN IF n1 - 1 = 0 \/ n2 - 1 = 0
          THEN [err |-> "ZeroDivisionError", val |-> NoStatistic]
          ELSE
          LET \* std_dev ** 2 is the variance again
              var_2020 == RDiv(sum_2020, FromInt(n1 - 1))
              var_2021 == RDiv(sum_2021, FromInt(n2 - 1))
              radicand == RAdd(RDiv(var_2020, FromInt(n1)), RDiv(var_2021, FromInt(n2)))
          IN IF RIsZero(radicand)
             THEN [err |-> "ZeroDivisionError", val |-> NoStatistic]
             ELSE [err |-> "",
                   val |-> [num |-> RSub(mean_2020, mean_2021), radicand |-> radicand]]

DataRows(file) == Tail(file)

\* lines 73-90
TTestRowStep ==
    /\ pc = "tt_rows"
    /\ row_ix < Len(DataRows(lines))
    /\ LET r == TTestRow(lines[1], DataRows(lines)[row_ix + 1], profits_2020, profits_2021)
       IN /\ profits_2020' = r.d20
          /\ profits_2021' = r.d21
    /\ row_ix' = row_ix + 1
    /\ UNCHANGED <<pc, error, grp_ix, entry, lines, t_test_scores, t_test_results,
                   country_data, country_distances, minkowski_results, combined_results>>
    /\ UNCHANGED <<pointVars, catVars>>

\* line 92
TTestRowsDone ==
    /\ pc = "tt_rows"
    /\ row_ix = Len(DataRows(lines))
    /\ pc' = "tt_groups"
    /\ grp_ix' = 0
    /\ t_test_scores' = <<>>
    /\ UNCHANGED <<error, row_ix, entry, lines, profits_2020, profits_2021, t_test_results,
                   country_data, country_distances, minkowski_results, combined_results>>
    /\ UNCHANGED <<pointVars, catVars>>

TTestGroupM ==
    /\ pc = "tt_groups"
    /\ grp_ix < Len(profits_2020)
    /\ LET country == profits_2020[grp_ix + 1].key
           r == t_statistic(profits_2020[grp_ix + 1].val, Get(profits_2021, country))
       IN /\ t_test_scores' = IF r.err # "" THEN t_test_scores
                              ELSE Put(t_test_scores, country, Round4(r.val))
          /\ grp_ix' = grp_ix + 1
          /\ UNCHANGED <<pc, error>>
    /\ UNCHANGED <<row_ix, entry, lines, profits_2020, profits_2021, t_test_results,
                   country_data, country_distances, minkowski_results, combined_results>>
    /\ UNCHANGED <<pointVars, catVars>>

\* lines 94-112: one iteration of for country in profits_2020
TTestGroup ==
    /\ pc = "tt_groups"
    /\ grp_ix < Len(profits_2020)
    /\ LET country == profits_2020[grp_ix + 1].key
           r == t_statistic(profits_2020[grp_ix + 1].val, Get(profits_2021, country))
       IN IF r.err # ""
          THEN /\ pc' = "raised"
               /\ error' = r.err
               /\ UNCHANGED <<grp_ix, t_test_scores>>
          ELSE /\ t_test_scores' = Put(t_test_scores, country, Round4(r.val))
               /\ grp_ix' = grp_ix + 1
               /\ UNCHANGED <<pc, error>>
    /\ UNCHANGED <<row_ix, entry, lines, profits_2020, profits_2021, t_test_results,
                   country_data, country_distances, minkowski_results, combined_results>>
    /\ UNCHANGED <<pointVars, catVars>>

\* line 114, back in combine_t_test_and_minkowski at line 118
TTestReturn ==
    /\ pc = "tt_groups"
    /\ grp_ix = Len(profits_2020)
    /\ t_test_results' = Some(t_test_scores)
    /\ pc' = "md_rows"
    /\ row_ix' = 0
    /\ UNCHANGED <<error, grp_ix, entry, lines, profits_2020, profits_2021, t_test_scores,
                   country_data, country_distances, minkowski_results, combined_results>>
    /\ UNCHANGED <<pointVars, catVars>>

\* ========================================== calculate_minkowski_distances
DistRowM(header, row, cd) ==
    LET country == row[HeaderIndex(header, "country")]
        employees == ParseInt(row[HeaderIndex(header, "number of employees")])
        median_salary == ParseFloat(row[HeaderIndex(header, "median Salary")])
    IN IF ~employees.ok \/ ~median_salary.ok
       THEN [err |-> "", cd |-> cd]
       ELSE [err |-> "",
             cd |-> AppendTo(cd, country, <<FromInt(employees.val), median_salary.val>>)]

\* lines 42-50: one iteration of the row loop; int() and float() are not caught
DistRow(header, row, cd) ==
    LET country == row[HeaderIndex(header, "country")]
        employees == ParseInt(row[HeaderIndex(header, "number of employees")])
        median_salary == ParseFloat(row[HeaderIndex(header, "median Salary")])
    IN IF ~employees.ok
       THEN [err |-> "ValueError: invalid literal for int() with base 10", cd |-> cd]
       ELSE IF ~median_salary.ok
       THEN [err |-> "ValueError: could not convert string to float", cd |-> cd]
       ELSE [err |-> "",
             cd |-> AppendTo(cd, country, <<FromInt(employees.val), median_salary.val>>)]

\* lines 41-50
DistRowStep ==
    /\ pc = "md_rows"
    /\ row_ix < Len(DataRows(lines))
    /\ LET r == DistRow(lines[1], DataRows(lines)[row_ix + 1], country_data)
       IN IF r.err # ""
          THEN /\ pc' = "raised"
               /\ error' = r.err
               /\ UNCHANGED <<row_ix, country_data>>
          ELSE /\ country_data' = r.cd
               /\ row_ix' = row_ix + 1
               /\ UNCHANGED <<pc, error>>
    /\ UNCHANGED <<grp_ix, entry, lines, profits_2020, profits_2021, t_test_scores,
                   t_test_results, country_distances, minkowski_results, combined_results>>
    /\ UNCHANGED <<pointVars, catVars>>

\* line 51
DistRowsDone ==
    /\ pc = "md_rows"
    /\ row_ix = Len(DataRows(lines))
    /\ pc' = "md_groups"
    /\ grp_ix' = 0
    /\ country_distances' = <<>>
    /\ UNCHANGED <<error, row_ix, entry, lines, profits_2020, profits_2021, t_test_scores,
                   t_test_results, country_data, minkowski_results, combined_results>>
    /\ UNCHANGED <<pointVars, catVars>>

\* lines 53-57: one iteration of for country, points in country_data.items()
DistGroup ==
    /\ pc = "md_groups"
    /\ grp_ix < Len(country_data)
    /\ LET country == country_data[grp_ix + 1].key
           points == country_data[grp_ix + 1].val
           v1 == [k \in DOMAIN points |-> points[k][1]]
           v2 == [k \in DOMAIN points |-> points[k][2]]
           r == minkowski_distance(v1, v2, p)
       IN IF r.err # ""
          THEN /\ pc' = "raised"
               /\ error' = r.err
               /\ UNCHANGED <<grp_ix, country_distances>>
          ELSE /\ country_distances' = Put(country_distances, country, Round4(r.val))
               /\ grp_ix' = grp_ix + 1
               /\ UNCHANGED <<pc, error>>
    /\ UNCHANGED <<row_ix, entry, lines, profits_2020, profits_2021, t_test_scores,
                   t_test_results, country_data, minkowski_results, combined_results>>
    /\ UNCHANGED <<pointVars, catVars>>

\* line 59, back in combine_t_test_and_minkowski at line 119 when it called
DistReturn ==
    /\ pc = "md_groups"
    /\ grp_ix = Len(country_data)
    /\ minkowski_results' = Some(country_distances)
    /\ pc' = IF entry = "combine_t_test_and_minkowski" THEN "join" ELSE "done"
    /\ UNCHANGED <<error, row_ix, grp_ix, entry, lines, profits_2020, profits_2021,
                   t_test_scores, t_test_results, country_data, country_distances,
                   combined_results>>
    /\ UNCHANGED <<pointVars, catVars>>

\* =========================================== combine_t_test_and_minkowski
RECURSIVE JoinM(_, _)
JoinM(t, m) ==
    IF t = <<>> THEN <<>>
    ELSE LET rest == JoinM(SubSeq(t, 1, Len(t) - 1), m)
             country == t[Len(t)].key
         IN IF Has(m, country)
            THEN Put(rest, country, <<Get(m, country), t[Len(t)].val>>)
            ELSE rest

\* lines 121-125: the loop over t_test_results.keys()
RECURSIVE Join(_, _)
Join(t, m) ==
    IF t = <<>> THEN <<>>
    ELSE LET rest == Join(SubSeq(t, 1, Len(t) - 1), m)
             country == t[Len(t)].key
         IN IF Has(m, country)
            THEN Put(rest, country, <<t[Len(t)].val, Get(m, country)>>)
            ELSE rest

\* lines 121-127
CombineJoin ==
    /\ pc = "join"
    /\ combined_results' = Some(Join(t_test_results[1], minkowski_results[1]))
    /\ pc' = "done"
    /\ UNCHANGED <<error, row_ix, grp_ix, entry, lines, profits_2020, profits_2021,
                   t_test_scores, t_test_results, country_data, country_distances,
                   minkowski_results>>
    /\ UNCHANGED <<pointVars, catVars>>

\* ------------------------------------------------------ calls on a file
Cell(s) == <<s>>
GoodProfits == {<<Cell("1"), Cell("2")>>, <<Cell("2"), Cell("2")>>}
BadProfits == {<<Cell("x"), Cell("2")>>, <<Cell("1"), Cell("x")>>}
Countries == {Cell("X"), Cell("Y")}

\* Rows of the files given to the name-keyed functions: well-formed rows,
\* rows with one unparseable profit cell, a row whose employee count is not
\* an integer ("1.5") and a row whose median salary is not a number.
FileRows ==
    {MkRow(Cell("a"), c, Cell("r"), Cell("2"), <<"1", ".", "5">>, pr[1], pr[2]) :
        c \in Countries, pr \in GoodProfits \cup BadProfits}
    \cup {MkRow(Cell("a"), Cell("Y"), Cell("r"), <<"1", ".", "5">>, <<"1", ".", "5">>, Cell("1"), Cell("2")),
          MkRow(Cell("a"), Cell("X"), Cell("r"), Cell("2"), Cell("x"), Cell("1"), Cell("2"))}

Files(rows) == {<<Header>> \o data : data \in UNION {[1..n -> rows] : n \in 0..MaxRows}}

InitFile ==
    /\ entry \in {"combine_t_test_and_minkowski", "calculate_minkowski_distances"}
    /\ pc = IF entry = "combine_t_test_and_minkowski" THEN "tt_rows" ELSE "md_rows"
    /\ error = ""
    /\ lines \in Files(FileRows)
    /\ row_ix = 0 /\ grp_ix = 0
    /\ profits_2020 = <<>> /\ profits_2021 = <<>>
    /\ t_test_scores = <<>> /\ t_test_results = None
    /\ country_data = <<>> /\ country_distances = <<>>
    /\ minkowski_results = None /\ combined_results = None
    /\ PointIdle /\ CatIdle

NextFile ==
    \/ TTestRowStep \/ TTestRowsDone \/ TTestGroup \/ TTestReturn
    \/ DistRowStep \/ DistRowsDone \/ DistGroup \/ DistReturn
    \/ CombineJoin

SpecFile == InitFile /\ [][NextFile]_vars

\* ================================================ calculate_category_data
UpperCase == <<"A", "B", "C", "D", "E", "F", "G", "H", "I", "J", "K", "L", "M",
               "N", "O", "P", "Q", "R", "S", "T", "U", "V", "W", "X", "Y", "Z">>
LowerCase == <<"a", "b", "c", "d", "e", "f", "g", "h", "i", "j", "k", "l", "m",
               "n", "o", "p", "q", "r", "s", "t", "u", "v", "w", "x", "y", "z">>

\* str.lower()
Lower(cell) ==
    [k \in DOMAIN cell |->
        IF \E u \in DOMAIN UpperCase : UpperCase[u] = cell[k]
        THEN LowerCase[CHOOSE u \in DOMAIN UpperCase : UpperCase[u] = cell[k]]
        ELSE cell[k]]

Pad4(v) ==
    IF v < 10 THEN "000" \o ToString(v)
    ELSE IF v < 100 THEN "00" \o ToString(v)
    ELSE IF v < 1000 THEN "0" \o ToString(v)
    ELSE ToString(v)

\* f"{x:.4f}" of a non-negative number: four decimals, ties to even
Format4(x) ==
    LET scaled == x.n * 10000
        q == scaled \div x.d
        r == scaled % x.d
        up == 2 * r > x.d \/ (2 * r = x.d /\ q % 2 = 1)
        v == IF up THEN q + 1 ELSE q
    IN ToString(v \div 10000) \o "." \o Pad4(v % 10000)

NonPositiveM(employees) == employees < 0
\* line 142: if employees <= 0
NonPositive(employees) == employees <= 0

\* lines 135-156: one iteration of the row loop.  A Python index k is position
\* k + 1 here; IndexError and ValueError are caught (skip), ZeroDivisionError
\* of line 145 is not.
CatRow(row, cd) ==
    IF Len(row) < 7 THEN [out |-> "skipped", cd |-> cd]
    ELSE
    LET category == Lower(row[6])
        org_id == row[1]
        employees == ParseInt(row[7])
    IN IF ~employees.ok \/ Len(row) < 9 THEN [out |-> "skipped", cd |-> cd]
       ELSE
       LET profit_2020 == ParseFloat(row[9])
       IN IF ~profit_2020.ok \/ Len(row) < 10 THEN [out |-> "skipped", cd |-> cd]
          ELSE
          LET profit_2021 == ParseFloat(row[10])
          IN IF ~profit_2021.ok THEN [out |-> "skipped", cd |-> cd]
             ELSE IF NonPositive(employees.val) THEN [out |-> "skipped", cd |-> cd]
             ELSE IF RIsZero(profit_2020.val) THEN [out |-> "ZeroDivisionError", cd |-> cd]
             ELSE
             LET change == RAbs(RMul(RDiv(RSub(profit_2021.val, profit_2020.val),
                                          profit_2020.val), FromInt(100)))
                 profit_change_percentage == Format4(change)
                 orgs == IF Has(cd, category) THEN Get(cd, category) ELSE <<>>
             IN [out |-> "added",
                 cd |-> Put(cd, category,
                            AppendTo(orgs, org_id, <<employees.val, profit_change_percentage>>))]

\* line 159, the key: sum(float(data[0]) for data in x[1])
SizeScore(org_info) == RSum([k \in DOMAIN org_info |-> FromInt(org_info[k][1])])

GoesBeforeM(a, b) == ~RLess(SizeScore(a.val), SizeScore(b.val))
\* sorted(..., reverse=True) is stable: a later item b passes an earlier
\* item a only when b's key is strictly larger
GoesBefore(a, b) == RLess(SizeScore(b.val), SizeScore(a.val))

\* item x, later in the input than all of s, inserted into the sorted s
InsertDesc(s, x) ==
    LET passed == {k \in DOMAIN s : \A j \in k..Len(s) : GoesBefore(x, s[j])}
        at == IF passed = {} THEN Len(s) + 1
              ELSE CHOOSE k \in passed : \A j \in passed : k <= j
    IN SubSeq(s, 1, at - 1) \o <<x>> \o SubSeq(s, at, Len(s))

\* line 159: sorted(org_data.items(), key=..., reverse=True)
RECURSIVE SortedOrgs(_)
SortedOrgs(items) ==
    IF items = <<>> THEN <<>>
    ELSE InsertDesc(SortedOrgs(SubSeq(items, 1, Len(items) - 1)), items[Len(items)])

\* lines 159-162: the ranks of one category appended to its tuples in place
RankCategory(org_data) ==
    LET sorted_orgs == SortedOrgs(org_data)
        rank(org_id) == CHOOSE k \in DOMAIN sorted_orgs : sorted_orgs[k].key = org_id
    IN [j \in DOMAIN org_data |->
          [key |-> org_data[j].key,
           val |-> [t \in DOMAIN org_data[j].val |->
                      Append(org_data[j].val[t], rank(org_data[j].key))]]]

\* lines 133-156
CatRowStep ==
    /\ pc = "cat_rows"
    /\ row_ix < Len(DataRows(csv_data))
    /\ LET r == CatRow(DataRows(csv_data)[row_ix + 1], category_data)
       IN IF r.out = "ZeroDivisionError"
          THEN /\ pc' = "raised"
               /\ error' = "ZeroDivisionError"
               /\ UNCHANGED <<row_ix, category_data>>
          ELSE /\ category_data' = r.cd
               /\ row_ix' = row_ix + 1
               /\ UNCHANGED <<pc, error>>
    /\ UNCHANGED <<grp_ix, csv_data, cat_return>>
    /\ UNCHANGED <<pointVars, fileVars>>

\* line 158, entering the loop over category_data.items()
CatRowsDone ==
    /\ pc = "cat_rows"
    /\ row_ix = Len(DataRows(csv_data))
    /\ pc' = "cat_rank"
    /\ grp_ix' = 0
    /\ UNCHANGED <<error, row_ix, catVars>>
    /\ UNCHANGED <<pointVars, fileVars>>

\* lines 158-162: one category
CatRankStep ==
    /\ pc = "cat_rank"
    /\ grp_ix < Len(category_data)
    /\ category_data' =
          [category_data EXCEPT ![grp_ix + 1].val = RankCategory(category_data[grp_ix + 1].val)]
    /\ grp_ix' = grp_ix + 1
    /\ UNCHANGED <<pc, error, row_ix, csv_data, cat_return>>
    /\ UNCHANGED <<pointVars, fileVars>>

\* line 164
CatReturn ==
    /\ pc = "cat_rank"
    /\ grp_ix = Len(category_data)
    /\ cat_return' = Some(category_data)
    /\ pc' = "done"
    /\ UNCHANGED <<error, row_ix, grp_ix, csv_data, category_data>>
    /\ UNCHANGED <<pointVars, fileVars>>

\* The whole call as a function of its argument (lines 130-164).
RECURSIVE CatBuild(_)
CatBuild(rows) ==
    IF rows = <<>> THEN [out |-> "", cd |-> <<>>]
    ELSE LET before == CatBuild(SubSeq(rows, 1, Len(rows) - 1))
         IN IF before.out = "ZeroDivisionError" THEN before
            ELSE CatRow(rows[Len(rows)], before.cd)

calculate_category_data(data) ==
    LET built == CatBuild(DataRows(data))
    IN IF built.out = "ZeroDivisionError"
       THEN [err |-> "ZeroDivisionError", val |-> None]
       ELSE [err |-> "",
             val |-> Some([c \in DOMAIN built.cd |->
                             [key |-> built.cd[c].key, val |-> RankCategory(built.cd[c].val)]])]

\* Rows given to calculate_category_data: rows that survive (three entities of
\* category "r", one of them spelled "R", and a second category), rows the
\* code skips (employee count 0, with a 2020 profit of 1 and of 0, an employee
\* cell and a profit cell that are no numbers, a row of 9 cells), and a row
\* with a positive employee count whose 2020 profit is 0.
CatGood(id, category, employees) ==
    MkRow(Cell(id), Cell("X"), Cell(category), Cell(employees), Cell("5"), Cell("1"), Cell("2"))

CatRows ==
    {CatGood(id, "r", e) : id \in {"a", "b"}, e \in {"1", "2"}}
    \cup {MkRow(Cell("c"), Cell("X"), Cell("R"), Cell("2"), Cell("5"), Cell("2"), <<"1", ".", "5">>),
          CatGood("b", "s", "1")}
    \cup {CatGood("a", "r", "0"),
          MkRow(Cell("a"), Cell("X"), Cell("r"), Cell("0"), Cell("5"), Cell("0"), Cell("2")),
          CatGood("a", "r", "x"),
          MkRow(Cell("a"), Cell("X"), Cell("r"), Cell("1"), Cell("5"), Cell("1"), Cell("x")),
          SubSeq(CatGood("a", "r", "1"), 1, 9)}
    \cup {MkRow(Cell("a"), Cell("X"), Cell("r"), Cell("1"), Cell("5"), Cell("0"), Cell("2"))}

InitCategory ==
    /\ pc = "cat_rows" /\ error = ""
    /\ csv_data \in Files(CatRows)
    /\ category_data = <<>> /\ cat_return = None
    /\ row_ix = 0 /\ grp_ix = 0
    /\ PointIdle /\ FileIdle

NextCategory == CatRowStep \/ CatRowsDone \/ CatRankStep \/ CatReturn

SpecCategory == InitCategory /\ [][NextCategory]_vars

\* ------------------------------------------------ minkowski_distance call
PointVals == {-1, 0, 1, 2}
Vectors == UNION {[1..n -> {FromInt(v) : v \in PointVals}] : n \in 0..MaxLen}

InitPoint ==
    /\ pc = "md_check" /\ error = ""
    /\ x1 \in Vectors /\ x2 \in Vectors /\ p \in 1..MaxP
    /\ i = 0 /\ distance = RZero /\ md_return = None
    /\ row_ix = 0 /\ grp_ix = 0
    /\ FileIdle /\ CatIdle

NextPoint == MDCheck \/ MDLoop \/ MDReturn

SpecPoint == InitPoint /\ [][NextPoint]_vars
\* ================================================================ claims
MismatchError == "ValueError: Input vectors must have the same dimensionality."

\* C6: minkowski_distance raises the dimension-mismatch error exactly when
\* len(x1) # len(x2), before any term of the sum is computed (the loop has
\* not started and nothing is returned); with equal lengths it never raises
\* and ends by returning a value.
C6_DimensionMismatchExactly ==
    /\ pc = "raised" =>
          /\ error = MismatchError /\ Len(x1) # Len(x2)
          /\ i = 0 /\ distance = RZero /\ md_return = None
    /\ (pc # "md_check" /\ Len(x1) # Len(x2)) => pc = "raised"
    /\ Len(x1) = Len(x2) => error = ""
    /\ pc = "md_loop" => i <= Len(x1)
    /\ pc = "done" => md_return # None /\ i = Len(x1)

C6_Witness == pc = "raised" /\ error = MismatchError /\ Len(x1) = 2 /\ Len(x2) = 1

\* C7: for equal-length integer vectors and a positive integer p the
\* accumulated sum is never negative, and it is 0 exactly when the compared
\* elements are equal: after i terms for the first i indices, at the return
\* for every index; the returned root is the root of that sum.
C7_SumNonNegativeZeroIffEqual ==
    pc \in {"md_loop", "done"} =>
        /\ distance.n >= 0 /\ distance.d > 0
        /\ RIsZero(distance) <=> (\A k \in 1..i : x1[k] = x2[k])
        /\ pc = "done" =>
              /\ md_return = Some(Root(distance, p))
              /\ RIsZero(md_return[1].radicand) <=> (x1 = x2)

C7_Witness ==
    /\ pc = "done" /\ Len(x1) = 2 /\ p = 3
    /\ x1[1] = x2[1] /\ RLess(x1[2], x2[2]) /\ ~RIsZero(distance)

\* ---- the file functions
ColCountry == HeaderIndex(Header, "country")
ColEmployees == HeaderIndex(Header, "number of employees")
ColSalary == HeaderIndex(Header, "median Salary")
Col2020 == HeaderIndex(Header, "profits in 2020(million)")
Col2021 == HeaderIndex(Header, "profits in 2021(million)")

BothProfitsParse(row) == ParseFloat(row[Col2020]).ok /\ ParseFloat(row[Col2021]).ok

\* the (2020, 2021) values of the rows of a country whose two cells parse
RECURSIVE ValidPairs(_, _)
ValidPairs(rows, country) ==
    IF rows = <<>> THEN <<>>
    ELSE LET row == rows[Len(rows)]
             before == ValidPairs(SubSeq(rows, 1, Len(rows) - 1), country)
         IN IF row[ColCountry] = country /\ BothProfitsParse(row)
            THEN Append(before, <<ParseFloat(row[Col2020]).val, ParseFloat(row[Col2021]).val>>)
            ELSE before

CountriesOf(rows) == {rows[k][ColCountry] : k \in DOMAIN rows}
GroupsOf(rows) == {c \in CountriesOf(rows) : ValidPairs(rows, c) # <<>>}

ProcessedRows ==
    IF pc = "tt_rows" THEN SubSeq(DataRows(lines), 1, row_ix) ELSE DataRows(lines)

\* C3: after any prefix of the rows, the two sequences of every group have
\* the same length and hold, index by index, the two values of the same row:
\* the rows of that group whose two profit cells both parse, in row order.
\* A row with a cell that does not parse is in neither sequence.
C3_PairedSamplesInLockstep ==
    entry = "combine_t_test_and_minkowski" =>
        /\ Keys(profits_2020) = GroupsOf(ProcessedRows)
        /\ Keys(profits_2021) = GroupsOf(ProcessedRows)
        /\ \A c \in Keys(profits_2020) \cup Keys(profits_2021) :
              /\ Has(profits_2020, c) /\ Has(profits_2021, c)
              /\ Len(Get(profits_2020, c)) = Len(Get(profits_2021, c))
              /\ ValidPairs(ProcessedRows, c) =
                    [k \in DOMAIN Get(profits_2020, c) |->
                        <<Get(profits_2020, c)[k], Get(profits_2021, c)[k]>>]

C3_Witness ==
    /\ pc = "tt_rows" /\ row_ix = 3
    /\ ParseFloat(lines[2][Col2020]).ok /\ ~ParseFloat(lines[2][Col2021]).ok
    /\ BothProfitsParse(lines[3]) /\ BothProfitsParse(lines[4])
    /\ lines[2][ColCountry] = lines[3][ColCountry]
    /\ \E c \in Keys(profits_2020) : Len(Get(profits_2020, c)) = 2

SingletonGroup == \E c \in CountriesOf(DataRows(lines)) : Len(ValidPairs(DataRows(lines), c)) = 1

\* C8: when a group ends the bucketing pass with exactly one valid pair, the
\* call of calculate_t_test raises ZeroDivisionError: it never returns, so
\* combine never reaches the distances or the join and returns nothing,
\* whatever the other groups hold.
C8_SingletonGroupIsFatal ==
    (entry = "combine_t_test_and_minkowski" /\ SingletonGroup) =>
        /\ pc \in {"tt_rows", "tt_groups", "raised"}
        /\ pc = "tt_groups" => grp_ix < Len(profits_2020)
        /\ pc = "raised" => error = "ZeroDivisionError"
        /\ t_test_results = None /\ minkowski_results = None /\ combined_results = None

C8_Witness ==
    /\ entry = "combine_t_test_and_minkowski" /\ SingletonGroup
    /\ pc = "raised" /\ error = "ZeroDivisionError"
    /\ Len(t_test_scores) = 1 /\ t_test_results = None

\* C9: when every group with a valid row has at least two, calculate_t_test
\* returns a mapping whose keys are exactly the groups with a valid row.
C9_EveryGroupGetsAStatistic ==
    (/\ entry = "combine_t_test_and_minkowski"
     /\ ~SingletonGroup
     /\ pc \notin {"tt_rows", "tt_groups"}) =>
        /\ t_test_results # None
        /\ Keys(t_test_results[1]) = GroupsOf(DataRows(lines))

MalformedForDistance(row) ==
    ~ParseInt(row[ColEmployees]).ok \/ ~ParseFloat(row[ColSalary]).ok
MalformedRows == {k \in DOMAIN DataRows(lines) : MalformedForDistance(DataRows(lines)[k])}
FirstMalformed == CHOOSE k \in MalformedRows : \A j \in MalformedRows : k <= j
ParseErrors == {"ValueError: invalid literal for int() with base 10",
                "ValueError: could not convert string to float"}

\* C10: with a row whose employee cell is not an integer or whose salary
\* cell is not a number, calculate_minkowski_distances raises at the first
\* such row and returns nothing, and combine returns nothing either, also
\* when calculate_t_test has returned.
C10_DistanceEngineIsFatal ==
    MalformedRows # {} =>
        /\ minkowski_results = None /\ combined_results = None
        /\ pc \notin {"md_groups", "join", "done"}
        /\ pc = "md_rows" => row_ix < FirstMalformed
        /\ (pc = "raised" /\ (entry = "calculate_minkowski_distances" \/ t_test_results # None)) =>
              /\ error \in ParseErrors
              /\ row_ix = FirstMalformed - 1

C10_Witness ==
    /\ entry = "combine_t_test_and_minkowski" /\ pc = "raised" /\ error \in ParseErrors
    /\ t_test_results # None /\ Len(t_test_results[1]) = 1
    /\ row_ix = 2
    /\ \E c \in Keys(country_data) :
          \A k \in DOMAIN DataRows(lines) :
              DataRows(lines)[k][ColCountry] = c => ~MalformedForDistance(DataRows(lines)[k])

\* C2: when combine returns, its keys are the keys calculate_t_test returned
\* (the groups with a valid row) that calculate_minkowski_distances returned
\* too (the countries of the file), and the value of a key is the pair
\* [t-statistic, distance] of that key.
C2_CombineIsInnerJoin ==
    (entry = "combine_t_test_and_minkowski" /\ pc = "done") =>
        /\ t_test_results # None /\ minkowski_results # None /\ combined_results # None
        /\ Keys(t_test_results[1]) = GroupsOf(DataRows(lines))
        /\ Keys(minkowski_results[1]) = CountriesOf(DataRows(lines))
        /\ Keys(combined_results[1]) = Keys(t_test_results[1]) \cap Keys(minkowski_results[1])
        /\ Len(combined_results[1]) = Cardinality(Keys(combined_results[1]))
        /\ \A c \in Keys(combined_results[1]) :
              Get(combined_results[1], c) =
                  <<Get(t_test_results[1], c), Get(minkowski_results[1], c)>>

C2_Witness ==
    /\ entry = "combine_t_test_and_minkowski" /\ pc = "done"
    /\ Len(combined_results[1]) = 1
    /\ \E c \in Keys(minkowski_results[1]) : ~Has(t_test_results[1], c)

\* ---- calculate_category_data
CatData == DataRows(csv_data)

Survives(row) ==
    IF Len(row) < 10 THEN FALSE
    ELSE /\ ParseInt(row[7]).ok /\ ParseInt(row[7]).val > 0
         /\ ParseFloat(row[9]).ok /\ ParseFloat(row[10]).ok

RowsOfEntity(category, org_id) ==
    {k \in DOMAIN CatData :
        Survives(CatData[k]) /\ Lower(CatData[k][6]) = category /\ CatData[k][1] = org_id}

RECURSIVE EmployeesOver(_)
EmployeesOver(ks) ==
    IF ks = {} THEN 0
    ELSE LET k == CHOOSE k \in ks : TRUE
         IN ParseInt(CatData[k][7]).val + EmployeesOver(ks \ {k})

Score(category, org_id) == EmployeesOver(RowsOfEntity(category, org_id))
FirstRow(category, org_id) ==
    CHOOSE k \in RowsOfEntity(category, org_id) : \A j \in RowsOfEntity(category, org_id) : k <= j
EntitiesOf(category) ==
    {CatData[k][1] : k \in {k \in DOMAIN CatData :
                               Survives(CatData[k]) /\ Lower(CatData[k][6]) = category}}
ExpectedRank(category, org_id) ==
    1 + Cardinality({o \in EntitiesOf(category) :
                        \/ Score(category, o) > Score(category, org_id)
                        \/ /\ Score(category, o) = Score(category, org_id)
                           /\ FirstRow(category, o) < FirstRow(category, org_id)})

NamedSkipped(row) ==
    IF Len(row) < 10 THEN TRUE
    ELSE \/ ~ParseFloat(row[7]).ok \/ ~ParseFloat(row[9]).ok \/ ~ParseFloat(row[10]).ok
         \/ (ParseInt(row[7]).ok /\ ParseInt(row[7]).val <= 0)

RECURSIVE WithoutSkipped(_)
WithoutSkipped(rows) ==
    IF rows = <<>> THEN <<>>
    ELSE LET before == WithoutSkipped(SubSeq(rows, 1, Len(rows) - 1))
         IN IF NamedSkipped(rows[Len(rows)]) THEN before ELSE Append(before, rows[Len(rows)])

RECURSIVE TupleCount(_)
TupleCount(orgs) == IF orgs = <<>> THEN 0 ELSE Len(orgs[1].val) + TupleCount(Tail(orgs))
RECURSIVE Tuples(_)
Tuples(cd) == IF cd = <<>> THEN 0 ELSE TupleCount(cd[1].val) + Tuples(Tail(cd))

\* C4: the rows C4 names leave the mapping as it was: after any prefix the
\* mapping is the one built from the prefix without them (one tuple per other
\* row), and the returned result is the result of the call on the file
\* without them.
C4_SkippedRowsContributeNothing ==
    /\ pc = "cat_rows" =>
          /\ category_data = CatBuild(WithoutSkipped(SubSeq(CatData, 1, row_ix))).cd
          /\ Tuples(category_data) = Len(WithoutSkipped(SubSeq(CatData, 1, row_ix)))
    /\ (pc = "done" /\ cat_return # None) =>
          cat_return = calculate_category_data(<<Header>> \o WithoutSkipped(CatData)).val

C4_Witness ==
    /\ pc = "done" /\ cat_return # None /\ Len(CatData) = 3
    /\ NamedSkipped(CatData[1]) /\ ParseInt(CatData[1][7]).ok
    /\ NamedSkipped(CatData[2]) /\ Len(CatData[2]) < 10
    /\ ~NamedSkipped(CatData[3])
    /\ Tuples(cat_return[1]) = 1

\* C5: calculate_category_data runs to completion on every list of rows: no
\* row makes the call raise, and every processed row either added one tuple
\* or was skipped.
C5_CategoryEngineNeverAborts ==
    csv_data # <<>> =>
        /\ error = ""
        /\ pc # "raised"
        /\ Tuples(category_data) <= Len(CatData)
====
